---- MODULE Spec2Model ----
(***************************************************************************)
(* Model of scripts/manus-deploy-auto.py (deploy / status / remove of a    *)
(* project and monitor of a domain: zone lookup, CNAME upsert, project     *)
(* row, DNS and HTTP polling) and of the record creation of                *)
(* scripts/manus-dns-manager.py, which is the way records this tool did    *)
(* not create come to exist in the same zone.                              *)
(*                                                                         *)
(* Every invocation of a script is a process p.  A provider call, a store  *)
(* statement group between two provider calls, and one iteration of a      *)
(* polling loop are each one step.  Under Spec the invocations run one at  *)
(* a time (spec section 5: one flow of control per invocation).            *)
(*                                                                         *)
(* Specifications: Spec (deploy, remove, status, manager create, one at a  *)
(* time), SpecDeploys and SpecDeploysFair (deploys one at a time),         *)
(* SpecRace (two deploys side by side), SpecStored (remove and status on   *)
(* a store that holds rows), SpecMonitor (monitor), SpecZone (step 1 of    *)
(* deploy on domains of one to four labels).                               *)
(***************************************************************************)
EXTENDS Naturals, Integers, Sequences, FiniteSets, TLC

VARIABLES
  records,    \* the provider's DNS records: a set of [id, zone_id, type, name, content,
              \* proxied, ttl]
  nextId,     \* number of record identifiers the provider has handed out
  projects,   \* the rows of table projects
  run,        \* run[p]: position and locals of invocation p
  ops         \* number of invocations started so far

vars == <<records, nextId, projects, run, ops>>

----------------------------------------------------------------------------
(* Bounds and program constants *)

\* at most this many invocations are started in one behaviour
MaxOps == 3

\* for i in range(30)
DnsBudgetOffByOne == 30 - 1
DnsBudget == 30

\* for attempt in range(5)
HttpBudgetOneMore == 5 + 1
HttpBudget == 5

\* for i in range(60)
MonitorBudget == 60

Procs == {"p1", "p2"}

\* under Spec one invocation runs at a time: they all run as process p1
Sequential == {"p1"}

None == "None"

\* project names, custom domains (as dot-separated labels) and Manus URLs
\* given on the command line
Names == {"site1", "site2"}
Domains == {<<"app", "example", "com">>, <<"www", "example", "com">>,
            <<"app", "other", "org">>}
\* (a URL is its scheme, "" when it has none, and the rest)
ManusUrls == {[scheme |-> "https", netloc |-> "abc.manus.space"],
              [scheme |-> "", netloc |-> "xyz.manus.space"]}

\* the zones the API token can see, in the order the provider lists them (a
\* name can be listed twice: a zone and a pending zone of the same name)
Zones == <<[name |-> <<"example", "com">>, id |-> "z1"],
           [name |-> <<"example", "com">>, id |-> "z2"]>>

\* identifiers the provider hands out, in order
RecordIds == <<"r1", "r2", "r3", "r4", "r5", "r6">>

\* arguments of manus-dns-manager.py create: --domain, --type, --name, --content
ManagerDomains == {<<"example", "com">>}
ManagerInputs == {[type |-> "A", name |-> <<"app">>, content |-> "203.0.113.7",
                   proxied |-> FALSE],
                  [type |-> "CNAME", name |-> <<"app">>, content |-> "old.manus.space",
                   proxied |-> FALSE]}

\* answers of the HTTP GET of check_site_availability: a status code, or a
\* network-level failure (timeout, connection refused, TLS failure)
NetErr == -1
HttpAnswers == {200, 301, 399, 400, 500, NetErr}

----------------------------------------------------------------------------
(* Pure helpers *)

\* parts[-2:] of a list of labels
LastTwo(parts) ==
  IF Len(parts) >= 2 THEN SubSeq(parts, Len(parts) - 1, Len(parts)) ELSE parts

\* deploy_project: root_domain
RootDomain(parts) ==
  IF Len(parts) >= 3 THEN SubSeq(parts, 2, Len(parts)) ELSE LastTwo(parts)

\* get_zone_id: the name the zones query asks for
ZoneQueryName(domain) == LastTwo(domain)

\* extract_manus_target: urlparse(manus_url).netloc when the URL starts with
\* "http", the argument as it is otherwise
extract_manus_target(manus_url) ==
  IF manus_url.scheme \in {"http", "https"} THEN manus_url.netloc
  ELSE manus_url.netloc

\* get_zone_id on the provider's answer: answer is "error" (status other than
\* 200) or "ok" (status 200 with the zones named root)
ZonesNamed(name) == SelectSeq(Zones, LAMBDA z : z.name = name)

ZoneAnswer(domain) == ZonesNamed(ZoneQueryName(domain))

\* data["result"][0]["id"]
get_zone_id(domain, answer) ==
  IF answer = "ok" /\ ZoneAnswer(domain) # <<>>
  THEN ZoneAnswer(domain)[1].id
  ELSE None

\* check_site_availability: (is_live, status_code); answer is what the GET
\* came to, a status code or NetErr (the except branch)
check_site_availabilityUpTo400(answer) ==
  IF answer = NetErr THEN <<FALSE, 0>> ELSE <<answer <= 400, answer>>
check_site_availability(answer) ==
  IF answer = NetErr THEN <<FALSE, 0>> ELSE <<answer < 400, answer>>

----------------------------------------------------------------------------
(* The DNS provider, as the scripts see it through its HTTP API *)

\* A CNAME cannot share its name with any other record, and an identical
\* record cannot be created twice: the provider then answers "... already
\* exists".
ConflictsNever(zone_id, type, name, content) == FALSE
Conflicts(zone_id, type, name, content) ==
  \E r \in records :
    /\ r.zone_id = zone_id
    /\ r.name = name
    /\ (type = "CNAME" \/ r.type = "CNAME" \/ (r.type = type /\ r.content = content))

\* the answers the POST of a record can get: created (200/201 with success),
\* conflict (rejected, the text says "already exists"), rejected (any other
\* rejection), neterr (no response: httpx raises)
CreateAnswers(zone_id, type, name, content) ==
  (IF Conflicts(zone_id, type, name, content) THEN {"conflict"}
   ELSE IF nextId < Len(RecordIds) THEN {"created"} ELSE {})
  \cup {"rejected", "neterr"}

NewRecord(zone_id, type, name, content, proxied) ==
  [id |-> RecordIds[nextId + 1], zone_id |-> zone_id, type |-> type,
   name |-> name, content |-> content, proxied |-> proxied, ttl |-> 1]

\* the records a GET .../dns_records?name=..&type=CNAME lists
LookupAnyType(zone_id, name) ==
  {r \in records : r.zone_id = zone_id /\ r.name = name}
LookupTypeA(zone_id, name) ==
  {r \in records : r.zone_id = zone_id /\ r.name = name /\ r.type = "A"}
LookupCname(zone_id, name) ==
  {r \in records : r.zone_id = zone_id /\ r.name = name /\ r.type = "CNAME"}

RecordIdsHeld == {r.id : r \in records}

----------------------------------------------------------------------------
(* The state store: table projects *)

\* the row INSERT OR REPLACE writes; dns_propagated and site_live take their
\* column defaults
NewRowPending(name, custom_domain, manus_url, record_id, zone_id) ==
  [name |-> name, custom_domain |-> custom_domain, manus_url |-> manus_url,
   record_id |-> record_id, zone_id |-> zone_id, status |-> "pending",
   dns_propagated |-> FALSE, site_live |-> FALSE]
NewRow(name, custom_domain, manus_url, record_id, zone_id) ==
  [name |-> name, custom_domain |-> custom_domain, manus_url |-> manus_url,
   record_id |-> record_id, zone_id |-> zone_id, status |-> "deployed",
   dns_propagated |-> FALSE, site_live |-> FALSE]

\* INSERT OR REPLACE INTO projects: name is UNIQUE, the row of that name goes
InsertKeepingFlags(rows, row) ==
  {r \in rows : r.name # row.name}
    \cup (IF \E r \in rows : r.name = row.name
          THEN {[row EXCEPT !.dns_propagated = r.dns_propagated,
                            !.site_live = r.site_live]
                  : r \in {x \in rows : x.name = row.name}}
          ELSE {row})
InsertAlongside(rows, row) == rows \cup {row}
InsertOrReplace(rows, row) ==
  {r \in rows : r.name # row.name} \cup {row}

\* UPDATE projects SET dns_propagated=1 WHERE name=?
UpdateDnsResetsStatus(rows, name) ==
  {IF r.name = name THEN [r EXCEPT !.dns_propagated = TRUE, !.status = "pending"] ELSE r
     : r \in rows}
UpdateDns(rows, name) ==
  {IF r.name = name THEN [r EXCEPT !.dns_propagated = TRUE] ELSE r : r \in rows}

\* UPDATE projects SET site_live=1, status='live' WHERE name=?
UpdateLiveFlagOnly(rows, name) ==
  {IF r.name = name THEN [r EXCEPT !.site_live = TRUE] ELSE r : r \in rows}
UpdateLiveStatusOnly(rows, name) ==
  {IF r.name = name THEN [r EXCEPT !.status = "live"] ELSE r : r \in rows}
UpdateLiveIfPropagated(rows, name) ==
  {IF r.name = name /\ r.dns_propagated
     THEN [r EXCEPT !.site_live = TRUE, !.status = "live"] ELSE r
     : r \in rows}
UpdateLive(rows, name) ==
  {IF r.name = name THEN [r EXCEPT !.site_live = TRUE, !.status = "live"] ELSE r
     : r \in rows}

\* SELECT ... FROM projects WHERE name=?
SelectRows(rows, name) == {r \in rows : r.name = name}

\* DELETE FROM projects WHERE name=?
DeleteRow(rows, name) == {r \in rows : r.name # name}

----------------------------------------------------------------------------
(* Invocations *)

IdleRun ==
  [pc |-> "idle", op |-> "none", project_name |-> None, custom_domain |-> <<>>,
   manus_url |-> [scheme |-> "", netloc |-> ""], record_type |-> None,
   name |-> <<>>, asked |-> <<>>, proxied |-> FALSE,
   content |-> None, zone_id |-> None, record_id |-> None,
   i |-> 0, attempt |-> 0, dns_tries |-> 0, http_tries |-> 0,
   dns_ok |-> FALSE, site_ok |-> FALSE, status_code |-> 0, fetched |-> 0,
   matched |-> <<>>, payload |-> <<>>, records0 |-> {},
   out |-> <<>>, calls |-> <<>>, conn |-> FALSE, ret |-> None,
   store0 |-> {}]

Call(kind, answer) == [call |-> kind, answer |-> answer]

\* an uncaught exception ends the invocation where it stands
Raise(r, kind) ==
  [r EXCEPT !.pc = "crashed", !.ret = "raised", !.calls = Append(@, Call(kind, "neterr"))]

\* return False after an error message
Abort(r, msg) ==
  [r EXCEPT !.pc = "aborted", !.ret = "False", !.out = Append(@, msg)]

Init ==
  /\ records = {}
  /\ nextId = 0
  /\ projects = {}
  /\ run = [p \in Procs |-> IdleRun]
  /\ ops = 0

\* manus-deploy-auto.py deploy <project_name> <custom_domain> <manus_url>
DeployStart(p, project_name, custom_domain, manus_url) ==
  /\ run[p].pc = "idle"
  /\ ops < MaxOps
  /\ ops' = ops + 1
  /\ run' = [run EXCEPT ![p] =
       [IdleRun EXCEPT !.pc = "resolving_zone", !.op = "deploy",
                       !.project_name = project_name,
                       !.custom_domain = custom_domain,
                       !.manus_url = manus_url,
                       !.store0 = projects]]
  /\ UNCHANGED <<records, nextId, projects>>

\* if not zone_id
ZoneMissingNever(zone_id) == FALSE
ZoneMissing(zone_id) == zone_id = None

\* Step 1: zone_id = get_zone_id(root_domain)
DeployResolveZone(p) ==
  /\ run[p].pc = "resolving_zone"
  /\ \E answer \in {"ok", "error", "neterr"} :
       LET r == run[p]
           z == get_zone_id(RootDomain(r.custom_domain), answer)
           called == [r EXCEPT !.calls = Append(@, Call("findZone", answer)),
                               !.asked = ZoneQueryName(RootDomain(r.custom_domain)),
                               !.zone_id = z]
       IN run' = [run EXCEPT ![p] =
            IF answer = "neterr"
              THEN Raise([r EXCEPT !.asked = called.asked], "findZone")
            ELSE IF ZoneMissing(z) THEN Abort(called, "zone_not_found")
            ELSE [called EXCEPT !.pc = "creating_record"]]
  /\ UNCHANGED <<records, nextId, projects, ops>>

\* if "already exists" in resp.text.lower()
SaysAlreadyExistsAnyRejection(answer) == answer \in {"conflict", "rejected"}
SaysAlreadyExists(answer) == answer = "conflict"

\* Step 2, create_cname_record: the POST of the CNAME record
DeployCreateRecord(p) ==
  /\ run[p].pc = "creating_record"
  /\ LET r == run[p]
         target == extract_manus_target(r.manus_url)
     IN \E answer \in CreateAnswers(r.zone_id, "CNAME", r.custom_domain, target) :
          LET called == [r EXCEPT !.calls = Append(@, Call("createRecord", answer))]
              new == NewRecord(r.zone_id, "CNAME", r.custom_domain, target, TRUE)
          IN /\ run' = [run EXCEPT ![p] =
                  IF answer = "neterr" THEN Raise(r, "createRecord")
                  ELSE IF answer = "created"
                    THEN [called EXCEPT !.record_id = new.id, !.pc = "persisting",
                                        !.out = Append(@, "record_created")]
                  ELSE IF SaysAlreadyExists(answer)
                    THEN [called EXCEPT !.pc = "conflict_lookup"]
                  ELSE Abort(called, "create_failed")]
             /\ records' = IF answer = "created" THEN records \cup {new} ELSE records
             /\ nextId' = IF answer = "created" THEN nextId + 1 ELSE nextId
  /\ UNCHANGED <<projects, ops>>

\* Step 2, create_cname_record: the GET of the existing records after a
\* conflict, params name and type=CNAME; records[0] is the provider's first
DeployConflictLookup(p) ==
  /\ run[p].pc = "conflict_lookup"
  /\ LET r == run[p]
         found == LookupCname(r.zone_id, r.custom_domain)
     IN \E answer \in {"ok", "error", "neterr"} :
          LET called == [r EXCEPT !.calls = Append(@, Call("listRecords", answer))]
          IN IF answer = "neterr"
               THEN run' = [run EXCEPT ![p] = Raise(r, "listRecords")]
             ELSE IF answer = "ok" /\ found # {}
               THEN \E first \in found :
                      run' = [run EXCEPT ![p] =
                        [called EXCEPT !.record_id = first.id, !.pc = "persisting",
                                       !.out = Append(@, "record_created")]]
             ELSE run' = [run EXCEPT ![p] = Abort(called, "create_failed")]
  /\ UNCHANGED <<records, nextId, projects, ops>>

\* Step 3: INSERT OR REPLACE of the project row; the except branch returns
DeployPersistFailGoesOn(r) == [r EXCEPT !.pc = "monitoring_dns",
                                         !.out = Append(@, "database_error")]
DeployPersistFail(r) == Abort(r, "database_error")

DeployPersist(p) ==
  /\ run[p].pc = "persisting"
  /\ LET r == run[p]
     IN \E stored \in BOOLEAN :
          IF stored
          THEN /\ projects' = InsertOrReplace(projects,
                    NewRow(r.project_name, r.custom_domain, r.manus_url,
                           r.record_id, r.zone_id))
               /\ run' = [run EXCEPT ![p] =
                    [r EXCEPT !.pc = "monitoring_dns",
                              !.out = Append(@, "project_saved")]]
          ELSE /\ projects' = projects
               /\ run' = [run EXCEPT ![p] = DeployPersistFail(r)]
  /\ UNCHANGED <<records, nextId, ops>>

\* where the DNS loop goes on a successful resolution: break
AfterResolvedNoBreak(r) == [r EXCEPT !.i = @ + 1]
AfterResolved(r) == [r EXCEPT !.pc = "checking_site", !.i = 0, !.dns_tries = 0]

\* Step 4: one iteration of for i in range(30), check_dns_propagation
DeployDnsAttempt(p) ==
  /\ run[p].pc = "monitoring_dns"
  /\ run[p].i < DnsBudget
  /\ LET r == [run[p] EXCEPT !.dns_tries = @ + 1]
     IN \E resolved \in BOOLEAN :
          IF resolved
          THEN /\ projects' = UpdateDns(projects, r.project_name)
               /\ run' = [run EXCEPT ![p] =
                    AfterResolved([r EXCEPT !.out = Append(@, "dns_propagated")])]
          ELSE /\ projects' = projects
               /\ run' = [run EXCEPT ![p] = [r EXCEPT !.i = @ + 1]]
  /\ UNCHANGED <<records, nextId, ops>>

\* Step 4: the else branch of the loop
DeployDnsExhausted(p) ==
  /\ run[p].pc = "monitoring_dns"
  /\ run[p].i >= DnsBudget
  /\ run' = [run EXCEPT ![p] =
       [@ EXCEPT !.pc = "checking_site", !.i = 0, !.dns_tries = 0,
                 !.out = Append(@, "dns_still_propagating")]]
  /\ UNCHANGED <<records, nextId, projects, ops>>

\* the final summary and return True
Summary(r) ==
  [r EXCEPT !.pc = "done", !.ret = "True", !.out = Append(@, "deployment_complete")]

\* Step 5: one iteration of for attempt in range(5), check_site_availability
DeployHttpAttempt(p) ==
  /\ run[p].pc = "checking_site"
  /\ run[p].attempt < HttpBudget
  /\ LET r == [run[p] EXCEPT !.http_tries = @ + 1]
     IN \E answer \in HttpAnswers :
          LET is_live == check_site_availability(answer)[1]
          IN IF is_live
             THEN /\ projects' = UpdateLive(projects, r.project_name)
                  /\ run' = [run EXCEPT ![p] =
                       Summary([r EXCEPT !.out = Append(@, "site_live")])]
             ELSE /\ projects' = projects
                  /\ run' = [run EXCEPT ![p] = [r EXCEPT !.attempt = @ + 1]]
  /\ UNCHANGED <<records, nextId, ops>>

\* Step 5: the else branch of the loop
DeployHttpExhausted(p) ==
  /\ run[p].pc = "checking_site"
  /\ run[p].attempt >= HttpBudget
  /\ run' = [run EXCEPT ![p] =
       Summary([@ EXCEPT !.out = Append(@, "site_not_responding")])]
  /\ UNCHANGED <<records, nextId, projects, ops>>

\* if not row: print "Project not found" and return
NotFoundGoesOn(r) ==
  [r EXCEPT !.pc = IF r.op = "remove" THEN "deleting_record" ELSE "status_probing",
            !.out = Append(@, "not_found")]
NotFound(r) == [r EXCEPT !.pc = "done", !.out = Append(@, "not_found")]

\* if record_id and zone_id
HasUpstreamRecordZoneOnly(record_id, zone_id) == zone_id # None
HasUpstreamRecord(record_id, zone_id) == record_id # None /\ zone_id # None

\* manus-deploy-auto.py remove <project_name>: connect and SELECT the row
RemoveStart(p, project_name) ==
  /\ run[p].pc = "idle"
  /\ ops < MaxOps
  /\ ops' = ops + 1
  /\ LET rows == SelectRows(projects, project_name)
         r == [IdleRun EXCEPT !.op = "remove", !.project_name = project_name,
                              !.store0 = projects]
     IN IF rows = {}
        THEN run' = [run EXCEPT ![p] = NotFound(r)]
        ELSE \E row \in rows :
               run' = [run EXCEPT ![p] =
                 [r EXCEPT !.conn = TRUE,
                           !.record_id = row.record_id, !.zone_id = row.zone_id,
                           !.custom_domain = row.custom_domain,
                           !.pc = IF HasUpstreamRecord(row.record_id, row.zone_id)
                                  THEN "deleting_record" ELSE "deleting_row"]]
  /\ UNCHANGED <<records, nextId, projects>>

\* remove_project: the DELETE of the DNS record at the provider
RemoveUpstream(p) ==
  /\ run[p].pc = "deleting_record"
  /\ LET r == run[p]
         mine == {x \in records : x.id = r.record_id /\ x.zone_id = r.zone_id}
     IN \E answer \in (IF mine # {} THEN {"ok"} ELSE {}) \cup {"error", "neterr"} :
          LET called == [r EXCEPT !.calls = Append(@, Call("deleteRecord", answer))]
          IN /\ run' = [run EXCEPT ![p] =
                  IF answer = "neterr" THEN Raise(r, "deleteRecord")
                  ELSE [called EXCEPT !.pc = "deleting_row",
                          !.out = Append(@, IF answer = "ok" THEN "dns_record_deleted"
                                            ELSE "warning_not_deleted")]]
             /\ records' = IF answer = "ok" THEN records \ mine ELSE records
  /\ UNCHANGED <<nextId, projects, ops>>

\* remove_project: DELETE FROM projects, commit, close
RemoveLocal(p) ==
  /\ run[p].pc = "deleting_row"
  /\ projects' = DeleteRow(projects, run[p].project_name)
  /\ run' = [run EXCEPT ![p] =
       [@ EXCEPT !.pc = "done", !.conn = FALSE, !.out = Append(@, "removed")]]
  /\ UNCHANGED <<records, nextId, ops>>

\* manus-deploy-auto.py status <project_name>: connect, SELECT the row, close
StatusStart(p, project_name) ==
  /\ run[p].pc = "idle"
  /\ ops < MaxOps
  /\ ops' = ops + 1
  /\ LET rows == SelectRows(projects, project_name)
         r == [IdleRun EXCEPT !.op = "status", !.project_name = project_name,
                              !.store0 = projects]
     IN IF rows = {}
        THEN run' = [run EXCEPT ![p] = NotFound(r)]
        ELSE \E row \in rows :
               run' = [run EXCEPT ![p] =
                 [r EXCEPT !.custom_domain = row.custom_domain,
                           !.manus_url = row.manus_url,
                           !.pc = "status_probing"]]
  /\ UNCHANGED <<records, nextId, projects>>

\* the rows after get_project_status has probed: the handle was closed before
\* the probes and no statement follows them
StoreAfterStatusRefreshed(rows, name, dns_ok, site_ok) ==
  LET seen == IF dns_ok THEN UpdateDns(rows, name) ELSE rows
  IN IF site_ok THEN UpdateLive(seen, name) ELSE seen
StoreAfterStatus(rows, name, dns_ok, site_ok) == rows

\* get_project_status: dns_ok = check_dns_propagation(..), site_ok, status_code
\* = check_site_availability(..), then the panel
StatusProbe(p) ==
  /\ run[p].pc = "status_probing"
  /\ \E resolved \in BOOLEAN, answer \in HttpAnswers :
       LET r == run[p]
           probe == check_site_availability(answer)
       IN /\ run' = [run EXCEPT ![p] =
               [r EXCEPT !.dns_tries = @ + 1, !.http_tries = @ + 1,
                         !.dns_ok = resolved, !.fetched = answer,
                         !.site_ok = probe[1], !.status_code = probe[2],
                         !.pc = "done", !.out = Append(@, "status_panel")]]
          /\ projects' = StoreAfterStatus(projects, r.project_name, resolved, probe[1])
  /\ UNCHANGED <<records, nextId, ops>>

\* create_record of manus-dns-manager.py: full_name
FullName(name, domain) ==
  IF name = <<"@">> THEN domain
  ELSE IF Len(name) >= Len(domain)
          /\ SubSeq(name, Len(name) - Len(domain) + 1, Len(name)) = domain
    THEN name
  ELSE name \o domain

\* create_record: "proxied" of the payload
PayloadProxied(record_type, proxied) ==
  IF record_type \in {"A", "AAAA", "CNAME"} THEN proxied ELSE FALSE

\* manus-dns-manager.py create --domain --type --name --content [--proxied]
ManagerCreateStart(p, domain, in) ==
  /\ run[p].pc = "idle"
  /\ ops < MaxOps
  /\ ops' = ops + 1
  /\ run' = [run EXCEPT ![p] =
       [IdleRun EXCEPT !.pc = "manager_zone", !.op = "create",
                       !.custom_domain = domain, !.record_type = in.type,
                       !.name = in.name, !.content = in.content,
                       !.proxied = in.proxied,
                       !.store0 = projects]]
  /\ UNCHANGED <<records, nextId, projects>>

\* get_zone_id of manus-dns-manager.py: the zones named exactly domain
manager_get_zone_id(domain, answer) ==
  IF answer = "ok" /\ ZonesNamed(domain) # <<>>
  THEN ZonesNamed(domain)[1].id
  ELSE None

\* create_record: zone_id = get_zone_id(domain)
ManagerCreateZone(p) ==
  /\ run[p].pc = "manager_zone"
  /\ \E answer \in {"ok", "error", "neterr"} :
       LET r == run[p]
           z == manager_get_zone_id(r.custom_domain, answer)
           called == [r EXCEPT !.calls = Append(@, Call("findZone", answer)),
                               !.zone_id = z]
       IN run' = [run EXCEPT ![p] =
            IF answer = "neterr" THEN Raise(r, "findZone")
            ELSE IF z = None THEN Abort(called, "zone_not_found")
            ELSE [called EXCEPT !.pc = "manager_post"]]
  /\ UNCHANGED <<records, nextId, projects, ops>>

\* create_record: the POST of the record
ManagerCreatePost(p) ==
  /\ run[p].pc = "manager_post"
  /\ LET r == run[p]
         full_name == FullName(r.name, r.custom_domain)
     IN \E answer \in CreateAnswers(r.zone_id, r.record_type, full_name, r.content) :
          LET called == [r EXCEPT !.calls = Append(@, Call("createRecord", answer))]
              new == NewRecord(r.zone_id, r.record_type, full_name, r.content,
                               PayloadProxied(r.record_type, r.proxied))
          IN /\ run' = [run EXCEPT ![p] =
                  IF answer = "neterr" THEN Raise(r, "createRecord")
                  ELSE IF answer = "created"
                    THEN [called EXCEPT !.pc = "done", !.ret = "True",
                                        !.out = Append(@, "record_created")]
                  ELSE Abort(called, "create_failed")]
             /\ records' = IF answer = "created" THEN records \cup {new} ELSE records
             /\ nextId' = IF answer = "created" THEN nextId + 1 ELSE nextId
  /\ UNCHANGED <<projects, ops>>

\* the process of the invocation ends
Finish(p) ==
  /\ run[p].pc \in {"done", "aborted", "crashed"}
  /\ run' = [run EXCEPT ![p] = IdleRun]
  /\ UNCHANGED <<records, nextId, projects, ops>>

Next ==
  \E p \in Sequential :
    \/ \E n \in Names, d \in Domains, u \in ManusUrls : DeployStart(p, n, d, u)
    \/ DeployResolveZone(p)
    \/ DeployCreateRecord(p)
    \/ DeployConflictLookup(p)
    \/ DeployPersist(p)
    \/ DeployDnsAttempt(p)
    \/ DeployDnsExhausted(p)
    \/ DeployHttpAttempt(p)
    \/ DeployHttpExhausted(p)
    \/ \E n \in Names : RemoveStart(p, n)
    \/ RemoveUpstream(p)
    \/ RemoveLocal(p)
    \/ \E n \in Names : StatusStart(p, n)
    \/ StatusProbe(p)
    \/ \E d \in ManagerDomains, in \in ManagerInputs : ManagerCreateStart(p, d, in)
    \/ ManagerCreateZone(p)
    \/ ManagerCreatePost(p)
    \/ Finish(p)

Spec == Init /\ [][Next]_vars

----------------------------------------------------------------------------
(* manus-dns-manager.py update and delete, on a zone that holds records *)

\* records made outside the scripts (dashboard, other tools)
ZoneRecords ==
  {[id |-> "r1", zone_id |-> "z1", type |-> "A", name |-> <<"app", "example", "com">>,
    content |-> "203.0.113.7", proxied |-> TRUE, ttl |-> 1],
   [id |-> "r2", zone_id |-> "z1", type |-> "A", name |-> <<"app", "example", "com">>,
    content |-> "203.0.113.8", proxied |-> FALSE, ttl |-> 300],
   [id |-> "r3", zone_id |-> "z1", type |-> "CNAME", name |-> <<"www", "example", "com">>,
    content |-> "old.manus.space", proxied |-> TRUE, ttl |-> 1]}

\* arguments of update and delete: --type (optional), --name, --content
ManagerEdits ==
  {[type |-> None, name |-> <<"app">>, content |-> "198.51.100.9"],
   [type |-> "A", name |-> <<"app", "example", "com">>, content |-> "198.51.100.9"],
   [type |-> "TXT", name |-> <<"app">>, content |-> "v=spf1 -all"],
   [type |-> "CNAME", name |-> <<"www">>, content |-> "abc.manus.space"],
   [type |-> None, name |-> <<"@">>, content |-> "198.51.100.9"]}

InitManager ==
  /\ records \in SUBSET ZoneRecords
  /\ nextId = 3
  /\ projects = {}
  /\ run = [p \in Procs |-> IdleRun]
  /\ ops = 0

\* manus-dns-manager.py update | delete --domain [--type] --name [--content]
ManagerEditStart(p, op, domain, in) ==
  /\ run[p].pc = "idle"
  /\ ops < MaxOps
  /\ ops' = ops + 1
  /\ run' = [run EXCEPT ![p] =
       [IdleRun EXCEPT !.pc = "edit_zone", !.op = op,
                       !.custom_domain = domain, !.record_type = in.type,
                       !.name = in.name,
                       !.content = IF op = "update" THEN in.content ELSE None,
                       !.store0 = projects, !.records0 = records]]
  /\ UNCHANGED <<records, nextId, projects>>

\* update_record, delete_record: zone_id = get_zone_id(domain)
ManagerEditZone(p) ==
  /\ run[p].pc = "edit_zone"
  /\ \E answer \in {"ok", "error", "neterr"} :
       LET r == run[p]
           z == manager_get_zone_id(r.custom_domain, answer)
           called == [r EXCEPT !.calls = Append(@, Call("findZone", answer)),
                               !.zone_id = z]
       IN run' = [run EXCEPT ![p] =
            IF answer = "neterr" THEN Raise(r, "findZone")
            ELSE IF z = None THEN Abort(called, "zone_not_found")
            ELSE [called EXCEPT !.pc = "edit_lookup"]]
  /\ UNCHANGED <<records, nextId, projects, ops>>

\* the records the GET with params name (and type, when --type is given) lists
MatchRecordsAnyType(zone_id, full_name, record_type) ==
  {x \in records : x.zone_id = zone_id /\ x.name = full_name}
MatchRecords(zone_id, full_name, record_type) ==
  {x \in records : /\ x.zone_id = zone_id /\ x.name = full_name
                   /\ (record_type = None \/ x.type = record_type)}

\* update_record, delete_record: find the existing record; record = records[0]
\* is the provider's first
ManagerEditLookup(p) ==
  /\ run[p].pc = "edit_lookup"
  /\ LET r == run[p]
         found == MatchRecords(r.zone_id, FullName(r.name, r.custom_domain),
                               r.record_type)
     IN \E answer \in {"ok", "error", "neterr"} :
          LET called == [r EXCEPT !.calls = Append(@, Call("listRecords", answer))]
          IN IF answer = "neterr"
               THEN run' = [run EXCEPT ![p] = Raise(r, "listRecords")]
             ELSE IF answer = "error"
               THEN run' = [run EXCEPT ![p] = Abort(called, "error_finding_record")]
             ELSE IF found = {}
               THEN run' = [run EXCEPT ![p] = Abort(called, "no_record_found")]
             ELSE \E first \in found :
                    run' = [run EXCEPT ![p] =
                      [called EXCEPT !.record_id = first.id, !.matched = <<first>>,
                                     !.pc = IF r.op = "update" THEN "edit_put"
                                            ELSE "edit_delete"]]
  /\ UNCHANGED <<records, nextId, projects, ops>>

\* update_record: the payload of the PUT
UpdatePayloadDefaults(record, content) ==
  [type |-> record.type, name |-> record.name, content |-> content,
   proxied |-> FALSE, ttl |-> 1]
UpdatePayload(record, content) ==
  [type |-> record.type, name |-> record.name, content |-> content,
   proxied |-> record.proxied, ttl |-> record.ttl]

\* update_record: the PUT of the record; the provider overwrites the record
\* of that id with the payload
ManagerPut(p) ==
  /\ run[p].pc = "edit_put"
  /\ LET r == run[p]
         payload == UpdatePayload(r.matched[1], r.content)
         held == {x \in records : x.id = r.record_id /\ x.zone_id = r.zone_id}
     IN \E answer \in (IF held # {} THEN {"ok"} ELSE {}) \cup {"error", "neterr"} :
          LET called == [r EXCEPT !.calls = Append(@, Call("putRecord", answer)),
                                  !.payload = <<payload>>]
          IN /\ run' = [run EXCEPT ![p] =
                  IF answer = "neterr"
                    THEN Raise([r EXCEPT !.payload = <<payload>>], "putRecord")
                  ELSE IF answer = "ok"
                    THEN [called EXCEPT !.pc = "done", !.ret = "True",
                                        !.out = Append(@, "record_updated")]
                  ELSE Abort(called, "error_updating_record")]
             /\ records' =
                  IF answer = "ok"
                  THEN (records \ held)
                         \cup {[id |-> x.id, zone_id |-> x.zone_id,
                                 type |-> payload.type, name |-> payload.name,
                                 content |-> payload.content,
                                 proxied |-> payload.proxied, ttl |-> payload.ttl]
                                  : x \in held}
                  ELSE records
  /\ UNCHANGED <<nextId, projects, ops>>

\* delete_record: the DELETE of the record
ManagerDelete(p) ==
  /\ run[p].pc = "edit_delete"
  /\ LET r == run[p]
         held == {x \in records : x.id = r.record_id /\ x.zone_id = r.zone_id}
     IN \E answer \in (IF held # {} THEN {"ok"} ELSE {}) \cup {"error", "neterr"} :
          LET called == [r EXCEPT !.calls = Append(@, Call("deleteRecord", answer))]
          IN /\ run' = [run EXCEPT ![p] =
                  IF answer = "neterr" THEN Raise(r, "deleteRecord")
                  ELSE IF answer = "ok"
                    THEN [called EXCEPT !.pc = "done", !.ret = "True",
                                        !.out = Append(@, "record_deleted")]
                  ELSE Abort(called, "error_deleting_record")]
             /\ records' = IF answer = "ok" THEN records \ held ELSE records
  /\ UNCHANGED <<nextId, projects, ops>>

NextManager ==
  \E p \in Sequential :
    \/ \E op \in {"update", "delete"}, d \in ManagerDomains, in \in ManagerEdits :
         ManagerEditStart(p, op, d, in)
    \/ ManagerEditZone(p)
    \/ ManagerEditLookup(p)
    \/ ManagerPut(p)
    \/ ManagerDelete(p)
    \/ Finish(p)

SpecManager == InitManager /\ [][NextManager]_vars

----------------------------------------------------------------------------
(* Deploys alone: one at a time, and two invocations side by side *)

NextDeploys ==
  \E p \in Sequential :
    \/ \E n \in Names, d \in Domains, u \in ManusUrls : DeployStart(p, n, d, u)
    \/ DeployResolveZone(p)
    \/ DeployCreateRecord(p)
    \/ DeployConflictLookup(p)
    \/ DeployPersist(p)
    \/ DeployDnsAttempt(p)
    \/ DeployDnsExhausted(p)
    \/ DeployHttpAttempt(p)
    \/ DeployHttpExhausted(p)
    \/ Finish(p)

SpecDeploys == Init /\ [][NextDeploys]_vars

\* Steps 4 and 5 of deploy_project: the steps of the two polling loops.  The
\* process of an invocation goes on running: time.sleep returns, and every
\* probe returns within its timeout.
Polling(p) ==
  \/ DeployDnsAttempt(p)
  \/ DeployDnsExhausted(p)
  \/ DeployHttpAttempt(p)
  \/ DeployHttpExhausted(p)

SpecDeploysFair == SpecDeploys /\ \A p \in Sequential : WF_vars(Polling(p))

\* two invocations, one per process, started at any time and interleaved step
\* by step; their custom domains and Manus URL
RaceDomains == {<<"app", "example", "com">>, <<"www", "example", "com">>}
RaceUrls == {[scheme |-> "https", netloc |-> "abc.manus.space"]}

NextRace ==
  \E p \in Procs :
    \/ \E n \in Names, d \in RaceDomains, u \in RaceUrls : DeployStart(p, n, d, u)
    \/ DeployResolveZone(p)
    \/ DeployCreateRecord(p)
    \/ DeployConflictLookup(p)
    \/ DeployPersist(p)
    \/ DeployDnsAttempt(p)
    \/ DeployDnsExhausted(p)
    \/ DeployHttpAttempt(p)
    \/ DeployHttpExhausted(p)

SpecRace == Init /\ [][NextRace]_vars

\* two invocations of deploy, status or remove, one per process, interleaved
\* step by step
NextInterleaved ==
  \E p \in Procs :
    \/ \E n \in Names, d \in RaceDomains, u \in RaceUrls : DeployStart(p, n, d, u)
    \/ DeployResolveZone(p)
    \/ DeployCreateRecord(p)
    \/ DeployConflictLookup(p)
    \/ DeployPersist(p)
    \/ DeployDnsAttempt(p)
    \/ DeployDnsExhausted(p)
    \/ DeployHttpAttempt(p)
    \/ DeployHttpExhausted(p)
    \/ \E n \in Names : RemoveStart(p, n)
    \/ RemoveUpstream(p)
    \/ RemoveLocal(p)
    \/ \E n \in Names : StatusStart(p, n)
    \/ StatusProbe(p)

SpecInterleaved == Init /\ [][NextInterleaved]_vars

----------------------------------------------------------------------------
(* Step 1 of deploy alone, on custom domains of one to four labels *)

ZoneDomains == {<<"localhost">>, <<"example", "com">>, <<"other", "org">>,
                <<"app", "example", "com">>, <<"a", "b", "example", "com">>,
                <<"app", "shop", "co", "uk">>}

NextZone ==
  \E p \in Sequential :
    \/ \E n \in Names, d \in ZoneDomains, u \in ManusUrls : DeployStart(p, n, d, u)
    \/ DeployResolveZone(p)
    \/ Finish(p)

SpecZone == Init /\ [][NextZone]_vars

----------------------------------------------------------------------------
(* manus-deploy-auto.py monitor <domain> *)

MonitorStart(p, domain) ==
  /\ run[p].pc = "idle"
  /\ ops < MaxOps
  /\ ops' = ops + 1
  /\ run' = [run EXCEPT ![p] =
       [IdleRun EXCEPT !.pc = "monitoring", !.op = "monitor",
                       !.custom_domain = domain, !.store0 = projects]]
  /\ UNCHANGED <<records, nextId, projects>>

\* if dns_ok and site_ok
EitherOk(dns_ok, site_ok) == dns_ok \/ site_ok
BothOk(dns_ok, site_ok) == dns_ok /\ site_ok

\* one iteration of for i in range(60): both probes, the table, and the break
\* with "Domain is fully operational!"
MonitorIteration(p) ==
  /\ run[p].pc = "monitoring"
  /\ run[p].i < MonitorBudget
  /\ \E resolved \in BOOLEAN, answer \in HttpAnswers :
       LET probe == check_site_availability(answer)
           r == [run[p] EXCEPT !.dns_tries = @ + 1, !.http_tries = @ + 1,
                               !.dns_ok = resolved, !.fetched = answer,
                               !.site_ok = probe[1], !.status_code = probe[2]]
       IN run' = [run EXCEPT ![p] =
            IF BothOk(resolved, probe[1])
            THEN [r EXCEPT !.pc = "done", !.out = Append(@, "fully_operational")]
            ELSE [r EXCEPT !.i = @ + 1]]
  /\ UNCHANGED <<records, nextId, projects, ops>>

\* the loop runs out: monitor_domain returns, nothing more is printed
MonitorExhausted(p) ==
  /\ run[p].pc = "monitoring"
  /\ run[p].i >= MonitorBudget
  /\ run' = [run EXCEPT ![p] = [@ EXCEPT !.pc = "done"]]
  /\ UNCHANGED <<records, nextId, projects, ops>>

NextMonitor ==
  \E p \in Sequential :
    \/ \E d \in Domains : MonitorStart(p, d)
    \/ MonitorIteration(p)
    \/ MonitorExhausted(p)
    \/ Finish(p)

SpecMonitor == Init /\ [][NextMonitor]_vars

----------------------------------------------------------------------------
(* A store that holds rows when the invocations begin *)

\* rows the schema of init_database admits: record_id and zone_id are
\* nullable TEXT columns, name is UNIQUE
StoredIds == {<<None, None>>, <<None, "z1">>, <<"r1", "z1">>}
StoredRows ==
  {[NewRow(n, <<"app", "example", "com">>,
           [scheme |-> "https", netloc |-> "abc.manus.space"], ids[1], ids[2])
      EXCEPT !.status = st]
     : n \in Names, ids \in StoredIds, st \in {"pending", "deployed"}}

InitStored ==
  /\ records = {[id |-> RecordIds[1], zone_id |-> "z1", type |-> "CNAME",
                 name |-> <<"app", "example", "com">>,
                 content |-> "abc.manus.space", proxied |-> TRUE, ttl |-> 1]}
  /\ nextId = 1
  /\ projects \in {rows \in SUBSET StoredRows :
                     \A x, y \in rows : x.name = y.name => x = y}
  /\ run = [p \in Procs |-> IdleRun]
  /\ ops = 0

NextStored ==
  \E p \in Sequential :
    \/ \E n \in Names : RemoveStart(p, n)
    \/ RemoveUpstream(p)
    \/ RemoveLocal(p)
    \/ \E n \in Names : StatusStart(p, n)
    \/ StatusProbe(p)
    \/ Finish(p)

SpecStored == InitStored /\ [][NextStored]_vars

----------------------------------------------------------------------------
(* Properties *)

Has(seq, x) == \E k \in 1..Len(seq) : seq[k] = x

\* invocation r made the provider call kind and got answer
Got(r, kind, answer) ==
  \E k \in 1..Len(r.calls) : r.calls[k] = Call(kind, answer)

Made(r, kind) == \E k \in 1..Len(r.calls) : r.calls[k].call = kind

Deploys(p) == run[p].op = "deploy"

\* the row a deploy run of r has written, with the given status and flags
RowOf(r, status, dns_propagated, site_live) ==
  [name |-> r.project_name, custom_domain |-> r.custom_domain,
   manus_url |-> r.manus_url, record_id |-> r.record_id, zone_id |-> r.zone_id,
   status |-> status, dns_propagated |-> dns_propagated, site_live |-> site_live]

StatusRank(rows, name) ==
  IF SelectRows(rows, name) = {} THEN 0
  ELSE LET row == CHOOSE x \in SelectRows(rows, name) : TRUE
       IN CASE row.status = "pending" -> 1
            [] row.status = "deployed" -> 2
            [] row.status = "live" -> 3

\* C1: a deploy run that got a zone id z and a record id r, saw a name
\* resolution succeed within its 30 attempts and an HTTP probe succeed within
\* its 5 attempts, is done, and the one row of its project holds status=live,
\* dns_propagated=true, site_live=true, record_id=r and zone_id=z.
C1_LiveDeployRow ==
  \A p \in Procs :
    LET r == run[p]
    IN (Deploys(p) /\ r.zone_id # None /\ r.record_id # None
        /\ Has(r.out, "dns_propagated") /\ Has(r.out, "site_live"))
       => /\ r.pc = "done"
          /\ r.ret = "True"
          /\ r.http_tries <= 5
          /\ SelectRows(projects, r.project_name) = {RowOf(r, "live", TRUE, TRUE)}

C1_Witness ==
  \E p \in Procs :
    /\ Deploys(p) /\ run[p].pc = "done" /\ run[p].http_tries = 1
    /\ Has(run[p].out, "dns_propagated") /\ Has(run[p].out, "site_live")
    /\ run[p].zone_id = "z1" /\ run[p].record_id = "r1"
    /\ \E row \in projects : row.name = run[p].project_name /\ row.status = "live"

\* C2: a deploy run whose zone and record steps succeeded and whose 30
\* resolution attempts and 5 HTTP attempts all failed is done, its row has
\* status=deployed, dns_propagated=false, site_live=false, and what it reports
\* is the pending outcome: it returns True (no error) and reports "still
\* propagating" and "not responding yet", never "propagated" or "live".
C2_PendingDeploy ==
  \A p \in Procs :
    LET r == run[p]
    IN (Deploys(p) /\ Has(r.out, "dns_still_propagating")
        /\ Has(r.out, "site_not_responding"))
       => /\ r.pc = "done"
          /\ r.ret = "True"
          /\ r.http_tries = 5
          /\ SelectRows(projects, r.project_name) = {RowOf(r, "deployed", FALSE, FALSE)}
          /\ r.out = <<"record_created", "project_saved", "dns_still_propagating",
                       "site_not_responding", "deployment_complete">>

C2_Witness ==
  \E p \in Procs :
    /\ Deploys(p) /\ run[p].pc = "done"
    /\ Has(run[p].out, "dns_still_propagating")
    /\ Has(run[p].out, "site_not_responding")
    /\ \E row \in projects : row.name = run[p].project_name /\ row.status = "deployed"

\* C3 (as claimed): when the provider rejects the creation because a record
\* of that hostname exists, whatever its type, and answers the lookup, the
\* upsert returns the identifier of an existing record of that hostname and
\* deploy goes on to persisting.
C3_ConflictRecovered ==
  \A p \in Procs :
    LET r == run[p]
    IN (Deploys(p) /\ Got(r, "createRecord", "conflict") /\ Got(r, "listRecords", "ok"))
       => /\ r.pc # "aborted"
          /\ r.record_id \in {x.id : x \in LookupAnyType(r.zone_id, r.custom_domain)}

\* C4 (as claimed): when the upsert has returned an identifier, the provider
\* holds a record of that identifier whose name is the hostname and whose
\* content is the target, on the create path and after a conflict alike.
C4_ReturnedRecordRoutes ==
  \A p \in Procs :
    LET r == run[p]
    IN (Deploys(p) /\ r.pc = "persisting")
       => \E x \in records :
            /\ x.id = r.record_id
            /\ x.name = r.custom_domain
            /\ x.content = extract_manus_target(r.manus_url)

\* C5 (as claimed): a remove run of a project that has a record_id and a
\* zone_id ends with the project row deleted, whatever the upstream deletion
\* did (success, error response, network failure), and is never aborted.
C5_RemoveDeletesRow ==
  \A p \in Procs :
    LET r == run[p]
    IN (r.op = "remove" /\ r.record_id # None /\ r.zone_id # None
        /\ r.pc \in {"done", "aborted", "crashed"})
       => /\ r.pc = "done"
          /\ SelectRows(projects, r.project_name) = {}

\* C6 (as claimed): no step of a deploy run moves the stored status of its
\* project backward in the order pending, deployed, live, whatever row the
\* store held for the name when the run began.
C6_StatusNeverBackward ==
  [][\A p \in Procs :
       (Deploys(p) /\ run'[p].op = "deploy")
       => StatusRank(projects', run[p].project_name)
            >= StatusRank(projects, run[p].project_name)]_vars

\* C6 (amended): the persisting step of a deploy run writes status deployed,
\* whatever the status of the row it replaces; every other step of the run
\* leaves the stored status of its project where it is or moves it forward.
C6_ForwardAfterPersist ==
  [][\A p \in Procs :
       (Deploys(p) /\ run'[p].op = "deploy")
       => IF run[p].pc = "persisting" /\ projects' # projects
          THEN StatusRank(projects', run[p].project_name) = 2
          ELSE StatusRank(projects', run[p].project_name)
                 >= StatusRank(projects, run[p].project_name)]_vars

C6_Witness ==
  \E p \in Procs :
    /\ Deploys(p) /\ run[p].pc = "done"
    /\ StatusRank(run[p].store0, run[p].project_name) = 3
    /\ StatusRank(projects, run[p].project_name) = 3
    /\ Has(run[p].out, "project_saved")

\* no name resolution and no HTTP probe has been issued by invocation r
NoProbe(r) ==
  /\ r.dns_tries = 0 /\ r.http_tries = 0
  /\ \A m \in {"dns_propagated", "dns_still_propagating", "site_live",
               "site_not_responding"} : ~Has(r.out, m)

\* C7: when the zone lookup of a deploy run is answered and yields no zone,
\* the run is aborted at once: the zones query is the only provider call it
\* has made (no record creation), the records and the project rows are as
\* they were when it began, and it has issued no resolution or HTTP probe.
C7_NoZoneAborts ==
  \A p \in Procs :
    LET r == run[p]
    IN (Deploys(p) /\ r.zone_id = None
        /\ (Got(r, "findZone", "ok") \/ Got(r, "findZone", "error")))
       => /\ r.pc = "aborted"
          /\ r.ret = "False"
          /\ Len(r.calls) = 1
          /\ ~Made(r, "createRecord")
          /\ projects = r.store0
          /\ NoProbe(r)

C7_Witness ==
  \E p \in Procs :
    /\ Deploys(p) /\ run[p].pc = "aborted"
    /\ Got(run[p], "findZone", "ok") /\ run[p].zone_id = None
    /\ projects # {}

\* C8: when the provider rejects the record creation of a deploy run for a
\* reason other than a naming conflict, the upsert returns no identifier and
\* the run is aborted: no lookup follows, the project rows are as they were
\* when it began, and it has issued no resolution or HTTP probe.
C8_OtherRejectionAborts ==
  \A p \in Procs :
    LET r == run[p]
    IN (Deploys(p) /\ Got(r, "createRecord", "rejected"))
       => /\ r.record_id = None
          /\ r.pc = "aborted"
          /\ r.ret = "False"
          /\ ~Made(r, "listRecords")
          /\ projects = r.store0
          /\ NoProbe(r)

C8_Witness ==
  \E p \in Procs :
    /\ Deploys(p) /\ run[p].pc = "aborted"
    /\ Got(run[p], "createRecord", "rejected")
    /\ LookupCname(run[p].zone_id, run[p].custom_domain) # {}
    /\ SelectRows(projects, run[p].project_name) # {}

\* C9: when the row write of the persisting step fails, the deploy run is
\* aborted with no resolution and no HTTP probe issued, it has sent the
\* provider no delete or update request, and the record whose identifier the
\* upsert returned is still held by the provider.
C9_PersistFailureNoRollback ==
  \A p \in Procs :
    LET r == run[p]
    IN (Deploys(p) /\ Has(r.out, "database_error"))
       => /\ r.pc = "aborted"
          /\ r.ret = "False"
          /\ NoProbe(r)
          /\ \A k \in 1..Len(r.calls) :
               r.calls[k].call \in {"findZone", "createRecord", "listRecords"}
          /\ r.record_id \in RecordIdsHeld
          /\ projects = r.store0

C9_Witness ==
  \E p \in Procs :
    /\ Deploys(p) /\ run[p].pc = "aborted"
    /\ Has(run[p].out, "database_error")
    /\ Got(run[p], "createRecord", "created")
    /\ run[p].record_id \in RecordIdsHeld

\* C10: in the DNS loop of a deploy run (budget 30) every attempt made so far
\* has failed; the step that reports "propagated" is attempt k <= 30, the
\* first to succeed, and leaves the loop, so that no attempt follows it; the
\* step that reports "still propagating" comes after exactly 30 attempts, all
\* failed, and makes none itself.
C10_MonitorAttempts ==
  [][\A p \in Procs :
       LET r == run[p]
           t == run'[p]
       IN (Deploys(p) /\ r.pc = "monitoring_dns" /\ t # r)
          => /\ ~Has(r.out, "dns_propagated") /\ ~Has(r.out, "dns_still_propagating")
             /\ r.dns_tries = r.i /\ r.dns_tries <= 30
             /\ Has(t.out, "dns_propagated")
                  => (r.dns_tries + 1 <= 30 /\ t.pc = "checking_site"
                      /\ SelectRows(projects', r.project_name)
                           = {RowOf(r, "deployed", TRUE, FALSE)})
             /\ Has(t.out, "dns_still_propagating")
                  => (r.dns_tries = 30 /\ t.pc = "checking_site"
                      /\ projects' = projects)
             /\ t.pc = "monitoring_dns"
                  => (t.dns_tries = r.dns_tries + 1 /\ t.out = r.out
                      /\ projects' = projects)
             /\ t.pc \in {"monitoring_dns", "checking_site"}]_vars

C10_Witness ==
  \E p \in Procs :
    /\ Deploys(p) /\ run[p].pc = "monitoring_dns"
    /\ run[p].dns_tries = 30

\* C11: the one availability probe of a status run comes back as a value (the
\* run goes on to its report, it never ends on an exception) and says live
\* exactly when a response came with a status code below 400: live for 200,
\* 301, 399; not live for 400, 500 and for a network-level failure, whose
\* status code is given as 0.
C11_ProbeClassifies ==
  \A p \in Procs :
    LET r == run[p]
    IN (r.op = "status" /\ r.http_tries > 0)
       => /\ r.pc = "done" /\ Has(r.out, "status_panel")
          /\ r.site_ok <=> (r.fetched # NetErr /\ r.fetched \in 0..399)
          /\ r.fetched \in {200, 301, 399} => r.site_ok
          /\ r.fetched \in {400, 500, NetErr} => ~r.site_ok
          /\ r.status_code = (IF r.fetched = NetErr THEN 0 ELSE r.fetched)

C11_Witness ==
  \E p \in Procs :
    /\ run[p].op = "status" /\ run[p].pc = "done"
    /\ run[p].fetched = NetErr /\ ~run[p].site_ok /\ run[p].status_code = 0

\* C12: a status run of a stored project has, when it ends, issued exactly one
\* name resolution and exactly one HTTP probe and no provider call, and the
\* project rows are, field for field, the rows it found when it began,
\* whatever the two probes returned; before its probes it has issued none.
C12_StatusProbesOnce ==
  \A p \in Procs :
    LET r == run[p]
    IN (r.op = "status" /\ SelectRows(r.store0, r.project_name) # {})
       => /\ projects = r.store0
          /\ r.calls = <<>>
          /\ r.pc \in {"status_probing", "done"}
          /\ r.pc = "status_probing" => (r.dns_tries = 0 /\ r.http_tries = 0)
          /\ r.pc = "done" => (r.dns_tries = 1 /\ r.http_tries = 1)

C12_Witness ==
  \E p \in Procs :
    /\ run[p].op = "status" /\ run[p].pc = "done"
    /\ run[p].dns_ok /\ run[p].site_ok
    /\ \E row \in projects :
         /\ row.name = run[p].project_name
         /\ row.status = "deployed" /\ ~row.dns_propagated /\ ~row.site_live

\* C13: a remove run or a status run of a name that has no row reports "not
\* found" and nothing else, and ends there: it has made no provider call and
\* no resolution or HTTP probe, and the project rows are the rows it found.
C13_NotFoundNoEffect ==
  \A p \in Procs :
    LET r == run[p]
    IN (r.op \in {"remove", "status"} /\ SelectRows(r.store0, r.project_name) = {})
       => /\ r.pc = "done"
          /\ r.out = <<"not_found">>
          /\ r.calls = <<>>
          /\ NoProbe(r)
          /\ projects = r.store0

C13_Witness ==
  \E p \in Procs :
    /\ run[p].op = "remove" /\ run[p].pc = "done"
    /\ run[p].out = <<"not_found">>
    /\ projects # {} /\ records # {}

\* C14: a remove run of a stored project whose record_id is absent (with or
\* without a zone_id) sends the provider no request and reports no upstream
\* deletion, and when it ends the row of the project is deleted, the other
\* rows kept.
C14_RemoveWithoutRecord ==
  \A p \in Procs :
    LET r == run[p]
    IN (r.op = "remove" /\ r.record_id = None
        /\ SelectRows(r.store0, r.project_name) # {})
       => /\ r.calls = <<>>
          /\ ~Has(r.out, "dns_record_deleted") /\ ~Has(r.out, "warning_not_deleted")
          /\ r.pc \in {"deleting_row", "done"}
          /\ r.pc = "deleting_row" => projects = r.store0
          /\ r.pc = "done" => (/\ projects = DeleteRow(r.store0, r.project_name)
                               /\ SelectRows(projects, r.project_name) = {}
                               /\ r.out = <<"removed">>)

C14_Witness ==
  \E p \in Procs :
    /\ run[p].op = "remove" /\ run[p].pc = "done"
    /\ run[p].record_id = None /\ run[p].zone_id = "z1"
    /\ run[p].out = <<"removed">>
    /\ \E row \in run[p].store0 : row.name = run[p].project_name
    /\ projects # {}

\* C15: a monitor run makes one name resolution and one HTTP probe in each
\* iteration; while it goes on, no iteration so far had both succeed and it has
\* reported nothing; it ends either at the first iteration where both
\* succeed, which is one of the 60, reporting "fully operational", or after
\* exactly 60 iterations none of which had both succeed, without that report:
\* the two ends differ in what was reported.
C15_MonitorLoop ==
  \A p \in Procs :
    LET r == run[p]
    IN r.op = "monitor"
       => /\ r.dns_tries = r.http_tries
          /\ r.pc \in {"monitoring", "done"}
          /\ r.site_ok <=> (r.fetched \in 1..399)
          /\ r.pc = "monitoring"
               => (/\ r.i = r.dns_tries /\ r.i <= 60 /\ r.out = <<>>
                   /\ ~(r.dns_ok /\ r.site_ok))
          /\ r.pc = "done"
               => IF r.dns_ok /\ r.site_ok
                  THEN r.out = <<"fully_operational">> /\ r.dns_tries \in 1..60
                  ELSE r.out = <<>> /\ r.dns_tries = 60
          /\ projects = r.store0 /\ r.calls = <<>>

C15_Witness ==
  \E p \in Procs :
    /\ run[p].op = "monitor" /\ run[p].pc = "done"
    /\ run[p].dns_tries = 60 /\ run[p].http_tries = 60
    /\ run[p].dns_ok /\ ~run[p].site_ok
    /\ run[p].out = <<>>

\* every provider call of invocation r was answered, and not with an error
Served(r) ==
  \A k \in 1..Len(r.calls) : r.calls[k].answer \in {"ok", "created", "conflict"}

\* p and q deploy the same custom domain to the same target
SameUpsert(p, q) ==
  /\ Deploys(p) /\ Deploys(q)
  /\ run[p].custom_domain = run[q].custom_domain
  /\ extract_manus_target(run[p].manus_url) = extract_manus_target(run[q].manus_url)

RecordsNamed(name) == {x \in records : x.name = name}

\* C16: of two deploy runs of the same custom domain and target that run side
\* by side, whatever the interleaving: at most one has its creation accepted
\* and the provider never holds two records of that hostname; a run whose
\* creation is rejected as a conflict and whose lookup is answered obtains the
\* identifier of the record that exists and is not aborted; once a run holds
\* an identifier there is exactly one record of that hostname, and when both
\* hold one it is the same; a run whose provider calls were all answered
\* without error leaves the upsert for persisting (it is aborted only by a
\* failure of its row write).
C16_RaceAbsorbed ==
  \A p, q \in Procs :
    LET r == run[p]
    IN (p # q /\ SameUpsert(p, q))
       => /\ Cardinality(RecordsNamed(r.custom_domain)) <= 1
          /\ ~(Got(r, "createRecord", "created") /\ Got(run[q], "createRecord", "created"))
          /\ (Got(r, "createRecord", "conflict") /\ Got(r, "listRecords", "ok"))
               => (/\ r.record_id \in {x.id : x \in RecordsNamed(r.custom_domain)}
                   /\ Has(r.out, "record_created")
                   /\ r.pc = "aborted" => Has(r.out, "database_error"))
          /\ r.record_id # None => Cardinality(RecordsNamed(r.custom_domain)) = 1
          /\ (r.record_id # None /\ run[q].record_id # None)
               => r.record_id = run[q].record_id
          /\ (Served(r) /\ ~Has(r.out, "database_error"))
               => r.pc \notin {"aborted", "crashed"}

C16_Witness ==
  \E p, q \in Procs :
    /\ p # q /\ SameUpsert(p, q)
    /\ run[p].pc = "persisting" /\ run[q].pc = "persisting"
    /\ Got(run[p], "createRecord", "created")
    /\ Got(run[q], "createRecord", "conflict") /\ Got(run[q], "listRecords", "ok")
    /\ run[p].record_id = "r1" /\ run[q].record_id = "r1"
    /\ Cardinality(RecordsNamed(run[p].custom_domain)) = 1

\* the rows that stood in the store when r began and hold r's custom domain
\* and target: each was written by an earlier deploy run after its upsert
\* returned the row's record_id
EarlierUpserts(r) ==
  {row \in r.store0 :
     /\ row.custom_domain = r.custom_domain
     /\ extract_manus_target(row.manus_url) = extract_manus_target(r.manus_url)}

\* C17: when deploy runs follow one another and an earlier run's upsert has
\* returned an identifier for a hostname and target, the upsert of a later run
\* with the same hostname and target creates nothing, and when it returns an
\* identifier it has gone through the conflict and the lookup, the identifier
\* is the one the earlier upsert returned, and the provider holds exactly one
\* record of that hostname.
C17_UpsertTwice ==
  \A p \in Procs :
    LET r == run[p]
    IN (Deploys(p) /\ EarlierUpserts(r) # {})
       => /\ ~Got(r, "createRecord", "created")
          /\ r.record_id # None
               => (/\ Got(r, "createRecord", "conflict") /\ Got(r, "listRecords", "ok")
                   /\ \A row \in EarlierUpserts(r) : row.record_id = r.record_id
                   /\ Cardinality(RecordsNamed(r.custom_domain)) = 1)

C17_Witness ==
  \E p \in Procs :
    /\ Deploys(p) /\ run[p].pc = "done"
    /\ run[p].record_id = "r1"
    /\ Got(run[p], "createRecord", "conflict")
    /\ \E row \in EarlierUpserts(run[p]) : row.record_id = "r1"
    /\ RecordsNamed(run[p].custom_domain) # {}

\* C18: right after the persisting step of a deploy run whose project name
\* already had a row, a lookup of the name yields one row, which holds the
\* custom_domain, Manus URL, record_id and zone_id of this run, status
\* deployed, and dns_propagated and site_live false, whatever the earlier row
\* held; the rows of other names are as they were.
C18_PersistReplaces ==
  \A p \in Procs :
    LET r == run[p]
    IN (Deploys(p) /\ r.pc = "monitoring_dns" /\ r.i = 0
        /\ SelectRows(r.store0, r.project_name) # {})
       => /\ SelectRows(projects, r.project_name) = {RowOf(r, "deployed", FALSE, FALSE)}
          /\ DeleteRow(projects, r.project_name) = DeleteRow(r.store0, r.project_name)

C18_Witness ==
  \E p \in Procs :
    /\ Deploys(p) /\ run[p].pc = "monitoring_dns" /\ run[p].i = 0
    /\ \E old \in SelectRows(run[p].store0, run[p].project_name) :
         /\ old.status = "live" /\ old.dns_propagated /\ old.site_live
         /\ old.custom_domain # run[p].custom_domain
         /\ old.manus_url # run[p].manus_url
         /\ old.record_id # run[p].record_id
    /\ SelectRows(projects, run[p].project_name)
         = {RowOf(run[p], "deployed", FALSE, FALSE)}

LastTwoLabels(d) ==
  IF Len(d) < 2 THEN d ELSE <<d[Len(d) - 1], d[Len(d)]>>

\* the identifiers of the zones of that name, in the order of the listing
ZoneIdsNamed(name) ==
  [k \in 1..Len(ZonesNamed(name)) |-> ZonesNamed(name)[k].id]

FindZoneCalls(r) == {k \in 1..Len(r.calls) : r.calls[k].call = "findZone"}

\* C20 (as claimed): a deploy run whose zone query has been sent has sent one
\* such query and no other call, for the zone named by the last two labels of
\* its custom domain (the whole domain when it has fewer than two); when the
\* query is answered with a list that holds a zone, the run has the identifier
\* of the first zone of the list; when the query fails (an error status, or
\* no response at all) or the list is empty, the resolver has returned "zone
\* not found": the run holds no zone id, has reported "zone not found" and is
\* aborted, with no second query.
C20_ZoneResolver ==
  \A p \in Procs :
    LET r == run[p]
        root == LastTwoLabels(r.custom_domain)
    IN (Deploys(p) /\ Made(r, "findZone"))
       => /\ Cardinality(FindZoneCalls(r)) = 1 /\ Len(r.calls) = 1
          /\ r.asked = root
          /\ IF Got(r, "findZone", "ok") /\ ZoneIdsNamed(root) # <<>>
             THEN r.zone_id = ZoneIdsNamed(root)[1] /\ r.pc = "creating_record"
             ELSE /\ r.zone_id = None
                  /\ r.pc = "aborted" /\ r.ret = "False"
                  /\ r.out = <<"zone_not_found">>

----------------------------------------------------------------------------
(* update and delete of manus-dns-manager.py *)

Edits(p) == run[p].op \in {"update", "delete"}

WriteCall(r) == IF r.op = "update" THEN "putRecord" ELSE "deleteRecord"

\* the positions of the calls of r that create, overwrite or delete a record
WriteCalls(r) ==
  {k \in 1..Len(r.calls) :
     r.calls[k].call \in {"createRecord", "putRecord", "deleteRecord"}}

\* the records, as they were when r started, of the name r asks for in the
\* zone r resolved, and of the type r asks for when it names one
Wanted(r) ==
  {x \in r.records0 :
     /\ x.zone_id = r.zone_id
     /\ x.name = (IF r.name = <<"@">> THEN r.custom_domain
                  ELSE IF Len(r.name) >= Len(r.custom_domain)
                          /\ SubSeq(r.name, Len(r.name) - Len(r.custom_domain) + 1,
                                    Len(r.name)) = r.custom_domain
                    THEN r.name
                  ELSE r.name \o r.custom_domain)
     /\ (r.record_type # None => x.type = r.record_type)}

\* C21: an update or delete run sends its one PUT or DELETE only after a
\* listing of the records of the name (and of the type, when one is given),
\* and for a record of that listing; nothing but that one record differs in
\* the zone afterwards. When the listing is answered with no record the run
\* sends no PUT or DELETE, leaves the zone as it was and returns False having
\* reported "no record found", which is neither the report of a failed
\* listing nor that of a rejected PUT or DELETE.
C21_EditActsOnMatch ==
  \A p \in Procs :
    LET r == run[p]
    IN Edits(p) =>
       /\ WriteCalls(r) \subseteq {3}
       /\ Made(r, WriteCall(r))
            => /\ r.calls[2] = Call("listRecords", "ok")
               /\ r.calls[3].call = WriteCall(r)
               /\ r.record_id \in {x.id : x \in Wanted(r)}
               /\ {x \in records : x.id # r.record_id}
                    = {x \in r.records0 : x.id # r.record_id}
       /\ ~Made(r, WriteCall(r)) => records = r.records0
       /\ (Got(r, "listRecords", "ok") /\ Wanted(r) = {})
            => /\ WriteCalls(r) = {}
               /\ r.pc = "aborted" /\ r.ret = "False"
               /\ r.out = <<"no_record_found">>
       /\ Got(r, "listRecords", "error")
            => WriteCalls(r) = {} /\ r.out = <<"error_finding_record">>
       /\ Got(r, WriteCall(r), "error")
            => r.out = <<IF r.op = "update" THEN "error_updating_record"
                         ELSE "error_deleting_record">>

\* an update that names a type finds records of the name but none of the
\* type, and ends on "no record found" without a PUT
C21_Witness ==
  \E p \in Procs :
    LET r == run[p]
    IN /\ r.op = "update" /\ r.record_type = "TXT"
       /\ Got(r, "listRecords", "ok")
       /\ \E x \in records : x.name = <<"app", "example", "com">>
       /\ r.out = <<"no_record_found">>

\* C28: after an update whose PUT was accepted, the payload sent carries the
\* type, name, proxied flag and ttl of the record the lookup returned and the
\* new content, and the zone is the zone as it was with that one record's
\* content replaced: no record created, no other record modified or deleted.
C28_UpdateTouchesContent ==
  \A p \in Procs :
    LET r == run[p]
    IN (r.op = "update" /\ Got(r, "putRecord", "ok"))
       => \E old \in r.records0 :
            /\ old.id = r.record_id
            /\ r.payload = <<[type |-> old.type, name |-> old.name,
                              content |-> r.content,
                              proxied |-> old.proxied, ttl |-> old.ttl]>>
            /\ records = (r.records0 \ {old})
                            \cup {[old EXCEPT !.content = r.content]}

\* an accepted update of a record with ttl 300 and proxied off, next to
\* another record of the same name and type
C28_Witness ==
  \E p \in Procs :
    LET r == run[p]
    IN /\ r.op = "update" /\ Got(r, "putRecord", "ok")
       /\ r.record_id = "r2"
       /\ \E x \in records : x.id = "r2" /\ x.ttl = 300 /\ x.content = r.content
       /\ \E x \in records : x.id = "r1"

----------------------------------------------------------------------------
(* The store under interleaved runs *)

\* C22: whatever deploy and remove runs have done, one after another or two
\* at a time, no two rows of the store have the same project name.
C22_OneRowPerName ==
  \A a \in projects, b \in projects : a.name = b.name => a = b

\* two deploy runs of one project name with different custom domains, side by
\* side, have both written their row
C22_Witness ==
  /\ \A p \in Procs : Deploys(p) /\ Has(run[p].out, "project_saved")
  /\ run["p1"].project_name = run["p2"].project_name
  /\ run["p1"].custom_domain # run["p2"].custom_domain
  /\ run["p1"].pc = "monitoring_dns" /\ run["p2"].pc = "checking_site"
  /\ SelectRows(projects, run["p1"].project_name) # {}

\* C23 (as claimed): an invocation of deploy, status or remove that has
\* ended, by returning or on an exception, holds no open handle of the store,
\* whatever failed while the handle was open.
C23_HandlesClosed ==
  \A p \in Procs :
    (run[p].op \in {"deploy", "status", "remove"}
       /\ run[p].pc \in {"done", "aborted", "crashed"})
      => run[p].conn = FALSE

----------------------------------------------------------------------------
(* The two health checks of a deploy run *)

\* C24: a deploy run reaches its HTTP probes after the resolution attempts
\* whether one of them succeeded or all 30 failed, and makes between one and
\* five probes either way; when it is done its row has dns_propagated exactly
\* if a resolution succeeded and has site_live, with status live, exactly if
\* a probe succeeded. So a run whose resolutions all failed and whose probe
\* succeeded ends with status live, site_live true and dns_propagated false.
C24_ChecksIndependent ==
  \A p \in Procs :
    LET r == run[p]
        resolved == Has(r.out, "dns_propagated")
        exhausted == Has(r.out, "dns_still_propagating")
        live == Has(r.out, "site_live")
    IN Deploys(p) =>
       /\ r.pc = "checking_site" => (resolved # exhausted) /\ r.http_tries <= HttpBudget
       /\ r.pc = "done"
            => /\ resolved # exhausted
               /\ r.http_tries \in 1..HttpBudget
               /\ live # Has(r.out, "site_not_responding")
               /\ SelectRows(projects, r.project_name)
                    = {RowOf(r, IF live THEN "live" ELSE "deployed", resolved, live)}

\* a finished run whose 30 resolutions failed and whose probe succeeded
C24_Witness ==
  \E p \in Procs :
    LET r == run[p]
    IN /\ Deploys(p) /\ r.pc = "done"
       /\ Has(r.out, "dns_still_propagating") /\ Has(r.out, "site_live")
       /\ SelectRows(projects, r.project_name) = {RowOf(r, "live", FALSE, TRUE)}

\* C25: with deploy, status and remove runs interleaved in any way, every row
\* of the store has status live if its site_live flag is set and status
\* deployed if it is not; in particular no row has status pending.
C25_StatusFollowsSiteLive ==
  \A row \in projects :
    row.status = (IF row.site_live THEN "live" ELSE "deployed")

\* a live row and a row not yet live, one deploy run done and the other still
\* probing its site
C25_Witness ==
  /\ \E row \in projects : row.site_live /\ row.status = "live"
  /\ \E row \in projects : ~row.site_live /\ row.status = "deployed"
  /\ \E p \in Procs : Deploys(p) /\ run[p].pc = "checking_site"
  /\ \E p \in Procs : Deploys(p) /\ run[p].pc = "done"

----------------------------------------------------------------------------
(* Stored record identifiers and the provider *)

\* C26 (as claimed): between invocations, and when the last one has returned
\* with all its provider calls served, the record_id of every row of the
\* store is the identifier of a record the provider holds.
C26_StoredRecordExists ==
  (\A p \in Procs : run[p].pc \in {"idle", "done"} /\ Served(run[p]))
    => \A row \in projects : row.record_id \in RecordIdsHeld

----------------------------------------------------------------------------
(* Two deploy runs of one project name with different custom domains *)

\* a deploy run of that project and that custom domain has reported msg
ProbedOk(row, msg) ==
  \E p \in Procs :
    /\ Deploys(p)
    /\ run[p].project_name = row.name
    /\ run[p].custom_domain = row.custom_domain
    /\ Has(run[p].out, msg)

\* C27 (as claimed): when two deploy runs of one project name with different
\* custom domains, started side by side, are both done, the row of that name
\* has dns_propagated only if a run resolved that row's custom domain, and
\* site_live only if a run's probe of that row's custom domain succeeded.
C27_FlagsOfOwnDomain ==
  (/\ \A p \in Procs : Deploys(p) /\ run[p].pc = "done"
   /\ run["p1"].project_name = run["p2"].project_name
   /\ run["p1"].custom_domain # run["p2"].custom_domain)
    => \A row \in SelectRows(projects, run["p1"].project_name) :
         /\ row.dns_propagated => ProbedOk(row, "dns_propagated")
         /\ row.site_live => ProbedOk(row, "site_live")

====
